---- MODULE Spec2Model ----
(***************************************************************************)
(* Model of src/bot.py: the TelegramBot bootstrap (constructor, setup_bot, *)
(* setup_health_server, start), the handler table it registers with the   *)
(* python-telegram-bot Application, the dispatch of updates over that      *)
(* table while run_polling is active, and the HealthCheckHandler served by *)
(* the daemon health thread.                                               *)
(***************************************************************************)
EXTENDS Integers, Sequences, FiniteSets, TLC

VARIABLES
    HEALTH_CHECK_ENABLED, \* module-level flag, bot.py:18-23 (fixed for a run)
    pc,                   \* position of the main thread
    application,          \* self.application
    health_server,        \* self.health_server
    handlers,             \* handlers added to the application, in order
    error_handlers,       \* error callbacks added to the application
    exc,                  \* exception in flight inside the current try block
    raised,               \* exception that escaped the last call to its caller
    ctorResult,           \* "pending" | "returned" | "raised"
    log,                  \* records written to the module logger
    sockets,              \* listening sockets bound on PORT by this process
    nThreads,             \* health threads running serve_forever
    bindFailures,         \* failed HTTPServer(...) constructions so far
    starts,               \* calls of start() so far
    pollStarts,           \* entries into application.run_polling so far
    loopClosed,           \* run_polling has ended once (its event loop is closed)
    pending,              \* updates the platform holds for this process's getUpdates
                          \* (none once its polling session is over for good), each
                          \* marked backlog when it was queued before the session
    lastDispatch,         \* what the last dispatched update caused
    failedBefore,         \* some handler has raised during this run
    droppedBacklog,       \* the session start discarded updates that were pending
    conns,                \* HTTP requests accepted by the kernel, not yet served
    lastResponse          \* the last HTTP response written by the health thread

vars == << HEALTH_CHECK_ENABLED, pc, application, health_server, handlers,
           error_handlers, exc, raised, ctorResult, log, sockets, nThreads,
           bindFailures, starts, pollStarts, loopClosed, pending, lastDispatch,
           failedBefore, droppedBacklog, conns, lastResponse >>

botVars == << application, health_server, handlers, error_handlers >>
healthVars == << sockets, nThreads, bindFailures >>
httpVars == << conns, lastResponse >>
dispatchVars == << pending, lastDispatch, failedBefore, droppedBacklog >>

(***************************************************************************)
(* Bounds of the model.                                                    *)
(***************************************************************************)
MaxStarts == 2
MaxPending == 1
MaxConns == 1

(***************************************************************************)
(* Text is a sequence of one-character strings.                            *)
(***************************************************************************)
UpperToLower ==
    [A |-> "a", B |-> "b", C |-> "c", D |-> "d", E |-> "e", F |-> "f", G |-> "g",
     H |-> "h", I |-> "i", J |-> "j", K |-> "k", L |-> "l", M |-> "m", N |-> "n",
     O |-> "o", P |-> "p", Q |-> "q", R |-> "r", S |-> "s", T |-> "t", U |-> "u",
     V |-> "v", W |-> "w", X |-> "x", Y |-> "y", Z |-> "z"]

\* str.lower()
lower(s) == [i \in 1..Len(s) |->
               IF s[i] \in DOMAIN UpperToLower THEN UpperToLower[s[i]] ELSE s[i]]

\* str.split("@"): the parts before and after the first "@" (second part <<>>
\* when there is none; no text of the model holds two "@")
AtIndex(s) == IF \E i \in 1..Len(s) : s[i] = "@"
              THEN CHOOSE i \in 1..Len(s) : s[i] = "@" /\ \A j \in 1..(i-1) : s[j] # "@"
              ELSE 0

split_at(s) == IF AtIndex(s) = 0 THEN << s >>
               ELSE << SubSeq(s, 1, AtIndex(s) - 1), SubSeq(s, AtIndex(s) + 1, Len(s)) >>


(***************************************************************************)
(* Updates delivered by the platform.  kind is the field of the Update     *)
(* that is set; text, ent (the first message entity) and ncm               *)
(* (new_chat_members is non-empty) describe its effective message.         *)
(***************************************************************************)
NoEntity == [type |-> "none", offset |-> 0, length |-> 0]
CommandEntity(off, len) == [type |-> "bot_command", offset |-> off, length |-> len]

Upd(kind, text, ent, ncm) == [kind |-> kind, text |-> text, ent |-> ent, ncm |-> ncm]

\* the username the platform reports for the bot's token
BotUsername == <<"j", "b">>

T_start == <<"/", "s", "t", "a", "r", "t">>
T_help == <<"/", "h", "e", "l", "p">>
T_about == <<"/", "a", "b", "o", "u", "t">>
T_dev == <<"/", "d", "e", "v">>
T_stats == <<"/", "s", "t", "a", "t", "s">>
T_deploy == <<"/", "d", "e", "p", "l", "o", "y">>
T_start_me == <<"/", "s", "t", "a", "r", "t", "@", "J", "B">>
T_start_other == <<"/", "s", "t", "a", "r", "t", "@", "x", "b">>
T_foo == <<"/", "f", "o", "o">>
T_hi == <<"h", "i">>
T_hi_dev == <<"h", "i", " ", "/", "d", "e", "v">>
NoText == << >>

CommandTexts == { T_start, T_help, T_about, T_dev, T_stats, T_deploy }

\* a text that opens with a command: the platform marks it with a bot_command
\* entity at offset 0 spanning the command word
CmdUpd(kind, text, len) == Upd(kind, text, CommandEntity(0, len), FALSE)

Updates ==
    { CmdUpd("message", t, Len(t)) : t \in CommandTexts }
    \cup { CmdUpd("message", T_start_me, 9),
           CmdUpd("message", T_start_other, 9), CmdUpd("message", T_foo, 4),
           Upd("message", T_hi, NoEntity, FALSE),
           Upd("message", T_hi_dev, CommandEntity(3, 4), FALSE),
           Upd("message", NoText, NoEntity, TRUE),
           Upd("message", NoText, NoEntity, FALSE),
           CmdUpd("edited_message", T_start, 6),
           Upd("edited_message", T_hi, NoEntity, FALSE),
           CmdUpd("channel_post", T_start, 6),
           Upd("callback_query", NoText, NoEntity, FALSE) }

(***************************************************************************)
(* The filters used by setup_bot, as telegram.ext.filters evaluates them.  *)
(***************************************************************************)
\* BaseFilter.check_update: the update carries a message of some kind
HasMessage(u) ==
    u.kind \in {"message", "edited_message", "channel_post", "edited_channel_post"}

filter_TEXT(u) == HasMessage(u) /\ u.text # NoText

filter_COMMAND(u) == HasMessage(u) /\ u.ent.type = "bot_command" /\ u.ent.offset = 0

filter_NEW_CHAT_MEMBERS(u) == HasMessage(u) /\ u.ncm

filter_EDITED_MESSAGE(u) == u.kind = "edited_message"

\* filters.UpdateType.MESSAGES, the default filter of a CommandHandler
filter_MESSAGES(u) == u.kind \in {"message", "edited_message"}

filter_TEXT_NOT_COMMAND(u) == filter_TEXT(u) /\ ~ filter_COMMAND(u)

FilterMatches(f, u) ==
    CASE f = "NEW_CHAT_MEMBERS" -> filter_NEW_CHAT_MEMBERS(u)
      [] f = "TEXT_NOT_COMMAND" -> filter_TEXT_NOT_COMMAND(u)
      [] f = "EDITED_MESSAGE" -> filter_EDITED_MESSAGE(u)
      [] OTHER -> FALSE

(***************************************************************************)
(* The handler table of setup_bot, in add_handler order.                   *)
(***************************************************************************)
CommandReg(name, cb) == [kind |-> "command", command |-> name, filter |-> "MESSAGES", callback |-> cb]
MessageReg(f, cb) == [kind |-> "message", command |-> << >>, filter |-> f, callback |-> cb]

Registrations ==
    << CommandReg(<<"s", "t", "a", "r", "t">>, "start_command"),
       CommandReg(<<"h", "e", "l", "p">>, "help_command"),
       CommandReg(<<"a", "b", "o", "u", "t">>, "about_command"),
       CommandReg(<<"d", "e", "v">>, "dev_command"),
       CommandReg(<<"s", "t", "a", "t", "s">>, "stats_command"),
       CommandReg(<<"d", "e", "p", "l", "o", "y">>, "deploy_command"),
       MessageReg("NEW_CHAT_MEMBERS", "handle_new_chat_members"),
       MessageReg("TEXT_NOT_COMMAND", "handle_message"),
       MessageReg("EDITED_MESSAGE", "handle_edited_message") >>

\* CommandHandler.check_update: the command word is text[1:entity.length],
\* split at "@"; the name must be the handler's command and the addressee,
\* when given, the bot itself; then the handler's filter decides
CommandWord(u) == split_at(SubSeq(u.text, 2, u.ent.length))

CommandAddressee(u) ==
    IF Len(CommandWord(u)) > 1 THEN CommandWord(u)[2] ELSE BotUsername

CommandMatches(h, u) ==
    /\ HasMessage(u)
    /\ u.ent.type = "bot_command"
    /\ u.ent.offset = 0
    /\ u.text # NoText
    /\ lower(CommandWord(u)[1]) = h.command
    /\ lower(CommandAddressee(u)) = lower(BotUsername)
    /\ filter_MESSAGES(u)

\* BaseHandler.check_update of a registered handler
check_update(h, u) ==
    IF h.kind = "command" THEN CommandMatches(h, u) ELSE FilterMatches(h.filter, u)


(***************************************************************************)
(* Application.process_update over one handler group: the handlers are     *)
(* tried in add_handler order and the first whose check succeeds handles   *)
(* the update; the loop over the group then breaks.                        *)
(***************************************************************************)
Matching(hs, u) == { i \in 1..Len(hs) : check_update(hs[i], u) }

FirstMatch(hs, u) ==
    IF Matching(hs, u) = {} THEN 0
    ELSE CHOOSE i \in Matching(hs, u) : \A j \in Matching(hs, u) : i <= j

RECURSIVE CallbacksFrom(_, _, _)
CallbacksFrom(hs, u, i) ==
    IF i > Len(hs) THEN << >>
    ELSE IF check_update(hs[i], u) THEN << hs[i].callback >> \o CallbacksFrom(hs, u, i + 1)
    ELSE CallbacksFrom(hs, u, i + 1)

\* a dispatcher that does not break after the first match
InvokedAllMatching(hs, u) == CallbacksFrom(hs, u, 1)

\* a dispatcher in which the handler registered last wins
InvokedLastMatch(hs, u) ==
    IF Matching(hs, u) = {} THEN << >>
    ELSE << hs[CHOOSE i \in Matching(hs, u) : \A j \in Matching(hs, u) : j <= i].callback >>

\* the callbacks process_update invokes for u
Invoked(hs, u) ==
    IF FirstMatch(hs, u) = 0 THEN << >> ELSE << hs[FirstMatch(hs, u)].callback >>

\* process_error without a registered error handler calls nothing
ErrorCallsNone(ehs, e) == << >>

\* Application.process_error: every registered error callback is called once
\* with the error
ErrorCalls(ehs, e) == [i \in 1..Len(ehs) |-> [callback |-> ehs[i], error |-> e]]

NoDispatch == [update |-> Upd("none", NoText, NoEntity, FALSE), backlog |-> FALSE,
               invoked |-> << >>, error |-> "none", errorCalls |-> << >>]

(***************************************************************************)
(* HealthCheckHandler.                                                     *)
(***************************************************************************)
HealthPath == "/health"
HealthBody == "{\"status\": \"healthy\", \"bot\": \"jokers-telegram-bot\"}"
ContentTypeHeader == [name |-> <<"C", "o", "n", "t", "e", "n", "t", "-", "t", "y", "p", "e">>, value |-> "application/json"]

Response(status, headers, body) == [status |-> status, headers |-> headers, body |-> body]
\* at: where the main thread stood when the response was written
NoResponse ==
    [request |-> [method |-> "none", path |-> ""], response |-> Response(0, << >>, ""),
     at |-> "none"]

\* a responder that answers every path as healthy
do_GET_any(path) == Response(200, << ContentTypeHeader >>, HealthBody)

\* a responder that reports healthy only while the bot polls
do_GET_polling_aware(path) ==
    IF path = HealthPath
    THEN IF pc = "polling"
         THEN Response(200, << ContentTypeHeader >>, HealthBody)
         ELSE Response(503, << >>, "")
    ELSE Response(404, << >>, "")

\* do_GET: the headers listed are those the handler sends itself
do_GET(path) ==
    IF path = HealthPath
    THEN Response(200, << ContentTypeHeader >>, HealthBody)
    ELSE Response(404, << >>, "")

\* BaseHTTPRequestHandler.handle_one_request: do_<METHOD> when the class
\* defines it, else send_error(501) with the library's error page
handle_one_request(req) ==
    IF req.method = "GET" THEN do_GET(req.path)
    ELSE Response(501, << [name |-> <<"C", "o", "n", "t", "e", "n", "t", "-", "T", "y", "p", "e">>, value |-> "text/html;charset=utf-8"] >>, "error page")

Requests ==
    { [method |-> "GET", path |-> p] : p \in {"/health", "/", "/health/", "/Health", "/health?x=1"} }
    \cup { [method |-> "POST", path |-> "/health"] }

\* a health thread created without daemon=True
HealthThreadNotDaemon == FALSE

\* threading.Thread(..., daemon=True)
HealthThreadDaemon == TRUE

LogRec(level, msg) == [level |-> level, msg |-> msg]

\* setup_health_server that lets the bind error escape
setup_health_server_raising(ok) ==
    IF ok
    THEN [health_server |-> "HTTPServer", sockets |-> sockets + 1, nThreads |-> nThreads + 1,
          bindFailures |-> bindFailures,
          log |-> Append(log, LogRec("info", "Health check server started")),
          exc |-> "none"]
    ELSE [health_server |-> health_server, sockets |-> sockets, nThreads |-> nThreads,
          bindFailures |-> bindFailures + 1,
          log |-> log,
          exc |-> "OSError"]

\* setup_health_server: ok says whether HTTPServer((0.0.0.0, PORT), ...) binds.
\* The result lists the new values of what the method touches and the
\* exception that leaves it.
setup_health_server(ok) ==
    IF ok
    THEN [health_server |-> "HTTPServer", sockets |-> sockets + 1, nThreads |-> nThreads + 1,
          bindFailures |-> bindFailures,
          log |-> Append(log, LogRec("info", "Health check server started")),
          exc |-> "none"]
    ELSE [health_server |-> health_server, sockets |-> sockets, nThreads |-> nThreads,
          bindFailures |-> bindFailures + 1,
          log |-> Append(log, LogRec("warning", "Could not start health server")),
          exc |-> "none"]


(***************************************************************************)
(* Initial state: the process has started and has not yet constructed the  *)
(* bot.  HEALTH_CHECK_ENABLED is whatever the configuration says.          *)
(***************************************************************************)
Init ==
    /\ HEALTH_CHECK_ENABLED \in BOOLEAN
    /\ pc = "boot"
    /\ application = "None"
    /\ health_server = "None"
    /\ handlers = << >>
    /\ error_handlers = << >>
    /\ exc = "none"
    /\ raised = "none"
    /\ ctorResult = "pending"
    /\ log = << >>
    /\ sockets = 0
    /\ nThreads = 0
    /\ bindFailures = 0
    /\ starts = 0
    /\ pollStarts = 0
    /\ loopClosed = FALSE
    /\ pending = << >>
    /\ lastDispatch = NoDispatch
    /\ failedBefore = FALSE
    /\ droppedBacklog = FALSE
    /\ conns = << >>
    /\ lastResponse = NoResponse

(***************************************************************************)
(* TelegramBot.__init__ and setup_bot.                                     *)
(***************************************************************************)
\* a constructor that starts the health server before it enters setup_bot
ConstructHealthFirst ==
    /\ pc = "boot"
    /\ application' = "None"
    /\ IF HEALTH_CHECK_ENABLED
       THEN /\ health_server' = "HTTPServer"
            /\ sockets' = sockets + 1
            /\ nThreads' = nThreads + 1
       ELSE /\ health_server' = "None"
            /\ UNCHANGED << sockets, nThreads >>
    /\ pc' = "build"
    /\ UNCHANGED << HEALTH_CHECK_ENABLED, handlers, error_handlers, exc, raised,
                    ctorResult, log, starts, pollStarts, loopClosed, bindFailures >>
    /\ UNCHANGED << httpVars, dispatchVars >>

\* __init__, lines 54-56: both fields None, then setup_bot is entered
Construct ==
    /\ pc = "boot"
    /\ application' = "None"
    /\ health_server' = "None"
    /\ pc' = "build"
    /\ UNCHANGED << HEALTH_CHECK_ENABLED, handlers, error_handlers, exc, raised,
                    ctorResult, log, starts, pollStarts, loopClosed >>
    /\ UNCHANGED << healthVars, httpVars, dispatchVars >>

\* setup_bot, line 103: Application.builder().token(BOT_TOKEN).build()
BuildApplication(ok) ==
    /\ pc = "build"
    /\ IF ok
       THEN /\ application' = "Application"
            /\ pc' = "register"
            /\ exc' = exc
       ELSE /\ application' = application
            /\ pc' = "setup_except"
            /\ exc' = "InvalidToken"
    /\ UNCHANGED << HEALTH_CHECK_ENABLED, health_server, handlers, error_handlers, raised,
                    ctorResult, log, starts, pollStarts, loopClosed >>
    /\ UNCHANGED << healthVars, httpVars, dispatchVars >>

\* setup_bot, lines 106-124: the next add_handler call
AddHandler(ok) ==
    /\ pc = "register"
    /\ IF ok
       THEN /\ handlers' = Append(handlers, Registrations[Len(handlers) + 1])
            /\ pc' = IF Len(handlers) + 1 = Len(Registrations) THEN "add_error" ELSE "register"
            /\ exc' = exc
       ELSE /\ handlers' = handlers
            /\ pc' = "setup_except"
            /\ exc' = "TypeError"
    /\ UNCHANGED << HEALTH_CHECK_ENABLED, application, health_server, error_handlers, raised,
                    ctorResult, log, starts, pollStarts, loopClosed >>
    /\ UNCHANGED << healthVars, httpVars, dispatchVars >>

\* setup_bot, lines 127-129: add_error_handler, then the success message
AddErrorHandler(ok) ==
    /\ pc = "add_error"
    /\ IF ok
       THEN /\ error_handlers' = Append(error_handlers, "error_handler")
            /\ log' = Append(log, LogRec("info", "Bot handlers configured successfully"))
            /\ pc' = "ctor_health"
            /\ exc' = exc
       ELSE /\ error_handlers' = error_handlers
            /\ log' = log
            /\ pc' = "setup_except"
            /\ exc' = "TypeError"
    /\ UNCHANGED << HEALTH_CHECK_ENABLED, application, health_server, handlers, raised,
                    ctorResult, starts, pollStarts, loopClosed >>
    /\ UNCHANGED << healthVars, httpVars, dispatchVars >>

\* an except block that logs the setup error and carries on
SetupBotExceptSwallow ==
    /\ pc = "setup_except"
    /\ log' = Append(log, LogRec("error", "Failed to setup bot"))
    /\ exc' = "none"
    /\ pc' = "ctor_health"
    /\ UNCHANGED << HEALTH_CHECK_ENABLED, raised, ctorResult, starts, pollStarts, loopClosed >>
    /\ UNCHANGED << botVars, healthVars, httpVars, dispatchVars >>

\* setup_bot, lines 131-133: log the error and re-raise; __init__ has no
\* handler, so the exception leaves the constructor
SetupBotExcept ==
    /\ pc = "setup_except"
    /\ log' = Append(log, LogRec("error", "Failed to setup bot"))
    /\ raised' = exc
    /\ exc' = "none"
    /\ ctorResult' = "raised"
    /\ pc' = "ctor_raised"
    /\ UNCHANGED << HEALTH_CHECK_ENABLED, starts, pollStarts, loopClosed >>
    /\ UNCHANGED << botVars, healthVars, httpVars, dispatchVars >>

\* a constructor that starts the health server whatever the flag says
CtorWantsHealthAlways == TRUE

\* __init__, line 57: if HEALTH_CHECK_ENABLED
CtorWantsHealth == HEALTH_CHECK_ENABLED

\* __init__, lines 57-58: the conditional setup_health_server, then return
CtorHealthServer(ok) ==
    /\ pc = "ctor_health"
    /\ IF CtorWantsHealth
       THEN /\ health_server' = setup_health_server(ok).health_server
            /\ sockets' = setup_health_server(ok).sockets
            /\ nThreads' = setup_health_server(ok).nThreads
            /\ bindFailures' = setup_health_server(ok).bindFailures
            /\ log' = setup_health_server(ok).log
            /\ IF setup_health_server(ok).exc = "none"
               THEN pc' = "constructed" /\ ctorResult' = "returned" /\ raised' = raised
               ELSE pc' = "ctor_raised" /\ ctorResult' = "raised"
                    /\ raised' = setup_health_server(ok).exc
       ELSE /\ ok
            /\ pc' = "constructed"
            /\ ctorResult' = "returned"
            /\ UNCHANGED << health_server, sockets, nThreads, bindFailures, log, raised >>
    /\ UNCHANGED << HEALTH_CHECK_ENABLED, application, handlers, error_handlers, exc,
                    starts, pollStarts, loopClosed >>
    /\ UNCHANGED << httpVars, dispatchVars >>


(***************************************************************************)
(* TelegramBot.start.                                                      *)
(***************************************************************************)
\* start, lines 73-74: the guard on self.application
StartCheck ==
    /\ pc = "start_check"
    /\ IF application = "None"
       THEN exc' = "RuntimeError" /\ pc' = "start_except"
       ELSE exc' = exc /\ pc' = "start_health"
    /\ UNCHANGED << HEALTH_CHECK_ENABLED, raised, ctorResult, log, starts, pollStarts,
                    loopClosed >>
    /\ UNCHANGED << botVars, healthVars, httpVars, dispatchVars >>

\* a start() that sets the health server up again although one is running
StartWantsHealthAgain == HEALTH_CHECK_ENABLED

\* start, line 77: if HEALTH_CHECK_ENABLED and not self.health_server
StartWantsHealth == HEALTH_CHECK_ENABLED /\ health_server = "None"

StartLog(l) ==
    l \o << LogRec("info", "Starting Joker's Telegram Bot..."),
            LogRec("info", "Health check enabled"),
            LogRec("info", "Port configured") >>

\* start, lines 77-83: the conditional setup_health_server, then the three
\* info messages that precede run_polling
StartHealthServer(ok) ==
    /\ pc = "start_health"
    /\ IF StartWantsHealth
       THEN /\ health_server' = setup_health_server(ok).health_server
            /\ sockets' = setup_health_server(ok).sockets
            /\ nThreads' = setup_health_server(ok).nThreads
            /\ bindFailures' = setup_health_server(ok).bindFailures
            /\ IF setup_health_server(ok).exc = "none"
               THEN /\ log' = StartLog(setup_health_server(ok).log)
                    /\ pc' = "run_polling"
                    /\ exc' = exc
               ELSE /\ log' = setup_health_server(ok).log
                    /\ pc' = "start_except"
                    /\ exc' = setup_health_server(ok).exc
       ELSE /\ ok
            /\ log' = StartLog(log)
            /\ pc' = "run_polling"
            /\ UNCHANGED << health_server, sockets, nThreads, bindFailures, exc >>
    /\ UNCHANGED << HEALTH_CHECK_ENABLED, application, handlers, error_handlers, raised,
                    ctorResult, starts, pollStarts, loopClosed >>
    /\ UNCHANGED << httpVars, dispatchVars >>

\* a run_polling called without drop_pending_updates: the backlog stays
RunPollingKeepPending(ok) ==
    /\ pc = "run_polling"
    /\ pollStarts' = pollStarts + 1
    /\ IF loopClosed
       THEN /\ ok
            /\ exc' = "RuntimeError"
            /\ pc' = "start_except"
            /\ UNCHANGED << loopClosed, pending, droppedBacklog >>
       ELSE IF ok
            THEN /\ pc' = "polling"
                 /\ UNCHANGED << exc, loopClosed, pending, droppedBacklog >>
            ELSE /\ exc' = "NetworkError"
                 /\ loopClosed' = TRUE
                 /\ pending' = << >>
                 /\ pc' = "start_except"
                 /\ UNCHANGED droppedBacklog
    /\ UNCHANGED << HEALTH_CHECK_ENABLED, raised, ctorResult, log, starts, lastDispatch,
                    failedBefore >>
    /\ UNCHANGED << botVars, healthVars, httpVars >>

\* a run_polling that polls again on a loop an earlier session has closed
RunPollingReopen(ok) ==
    /\ pc = "run_polling"
    /\ pollStarts' = pollStarts + 1
    /\ IF ok
       THEN /\ pending' = << >>
            /\ droppedBacklog' = (droppedBacklog \/ pending # << >>)
            /\ pc' = "polling"
            /\ UNCHANGED << exc, loopClosed >>
       ELSE /\ exc' = "NetworkError"
            /\ loopClosed' = TRUE
            /\ pending' = << >>
            /\ pc' = "start_except"
            /\ UNCHANGED droppedBacklog
    /\ UNCHANGED << HEALTH_CHECK_ENABLED, raised, ctorResult, log, starts, lastDispatch,
                    failedBefore >>
    /\ UNCHANGED << botVars, healthVars, httpVars >>

\* start, lines 85-93: application.run_polling is entered.  A loop closed by
\* an earlier run_polling (close_loop defaults to True) makes it raise at
\* once; otherwise it initialises the client (which may fail) and, with
\* drop_pending_updates=True, discards what was pending before polling.
\* Whenever run_polling ends, the loop is closed and the process will never
\* fetch an update again.
RunPolling(ok) ==
    /\ pc = "run_polling"
    /\ pollStarts' = pollStarts + 1
    /\ IF loopClosed
       THEN /\ ok
            /\ exc' = "RuntimeError"
            /\ pc' = "start_except"
            /\ UNCHANGED << loopClosed, pending, droppedBacklog >>
       ELSE IF ok
            THEN /\ pending' = << >>
                 /\ droppedBacklog' = (droppedBacklog \/ pending # << >>)
                 /\ pc' = "polling"
                 /\ UNCHANGED << exc, loopClosed >>
            ELSE /\ exc' = "NetworkError"
                 /\ loopClosed' = TRUE
                 /\ pending' = << >>
                 /\ pc' = "start_except"
                 /\ UNCHANGED droppedBacklog
    /\ UNCHANGED << HEALTH_CHECK_ENABLED, raised, ctorResult, log, starts, lastDispatch,
                    failedBefore >>
    /\ UNCHANGED << botVars, healthVars, httpVars >>

\* process_update catches the handler's exception and hands it to
\* process_error; the poll loop goes on
AfterHandlerError(e) == [pc |-> "polling", exc |-> exc, loopClosed |-> loopClosed]

\* the poll loop fetches the next update and process_update dispatches it
\* over the handler table; outcome is what the invoked callback does
ProcessUpdate(outcome) ==
    /\ pc = "polling"
    /\ pending # << >>
    /\ outcome = "raise" => Invoked(handlers, Head(pending).update) # << >>
    /\ pending' = Tail(pending)
    /\ lastDispatch' =
         [update |-> Head(pending).update,
          backlog |-> Head(pending).backlog,
          invoked |-> Invoked(handlers, Head(pending).update),
          error |-> IF outcome = "raise" THEN "HandlerError" ELSE "none",
          errorCalls |-> IF outcome = "raise"
                         THEN ErrorCalls(error_handlers, "HandlerError") ELSE << >>]
    /\ failedBefore' = (failedBefore \/ outcome = "raise")
    /\ UNCHANGED droppedBacklog
    /\ IF outcome = "raise"
       THEN /\ pc' = AfterHandlerError("HandlerError").pc
            /\ exc' = AfterHandlerError("HandlerError").exc
            /\ loopClosed' = AfterHandlerError("HandlerError").loopClosed
       ELSE UNCHANGED << pc, exc, loopClosed >>
    /\ UNCHANGED << HEALTH_CHECK_ENABLED, raised, ctorResult, log, starts, pollStarts >>
    /\ UNCHANGED << botVars, healthVars, httpVars >>

\* an error surfaces from the poll loop itself and leaves run_polling
PollError ==
    /\ pc = "polling"
    /\ exc' = "NetworkError"
    /\ loopClosed' = TRUE
    /\ pending' = << >>
    /\ pc' = "start_except"
    /\ UNCHANGED << HEALTH_CHECK_ENABLED, raised, ctorResult, log, starts, pollStarts,
                    lastDispatch, failedBefore, droppedBacklog >>
    /\ UNCHANGED << botVars, healthVars, httpVars >>

\* a stop signal (SIGINT, SIGTERM, SIGABRT) during run_polling: the polling
\* session is shut down and run_polling, then start, return normally
StopSignal ==
    /\ pc = "polling"
    /\ loopClosed' = TRUE
    /\ pending' = << >>
    /\ raised' = "none"
    /\ pc' = "start_returned"
    /\ UNCHANGED << HEALTH_CHECK_ENABLED, exc, ctorResult, log, starts, pollStarts,
                    lastDispatch, failedBefore, droppedBacklog >>
    /\ UNCHANGED << botVars, healthVars, httpVars >>

\* an except block that logs the error and returns normally
StartExceptSwallow ==
    /\ pc = "start_except"
    /\ log' = Append(log, LogRec("error", "Error starting bot"))
    /\ raised' = "none"
    /\ exc' = "none"
    /\ pc' = "start_returned"
    /\ UNCHANGED << HEALTH_CHECK_ENABLED, ctorResult, starts, pollStarts, loopClosed >>
    /\ UNCHANGED << botVars, healthVars, httpVars, dispatchVars >>

\* start, lines 95-97: log the error and re-raise it to the caller
StartExcept ==
    /\ pc = "start_except"
    /\ log' = Append(log, LogRec("error", "Error starting bot"))
    /\ raised' = exc
    /\ exc' = "none"
    /\ pc' = "start_raised"
    /\ UNCHANGED << HEALTH_CHECK_ENABLED, ctorResult, starts, pollStarts, loopClosed >>
    /\ UNCHANGED << botVars, healthVars, httpVars, dispatchVars >>

(***************************************************************************)
(* The caller of the class (the process entry point) and the process.      *)
(***************************************************************************)
\* the entry point calls start() on a constructed bot
CallStart ==
    /\ pc \in {"constructed", "start_returned", "start_raised"}
    /\ starts < MaxStarts
    /\ starts' = starts + 1
    /\ raised' = "none"
    /\ pc' = "start_check"
    /\ UNCHANGED << HEALTH_CHECK_ENABLED, exc, ctorResult, log, pollStarts, loopClosed >>
    /\ UNCHANGED << botVars, healthVars, httpVars, dispatchVars >>

\* the entry point is left: normally, or by the exception it received
MainEnd ==
    /\ pc \in {"constructed", "start_returned", "start_raised", "ctor_raised"}
    /\ pc' = "main_done"
    /\ UNCHANGED << HEALTH_CHECK_ENABLED, exc, raised, ctorResult, log, starts, pollStarts,
                    loopClosed >>
    /\ UNCHANGED << botVars, healthVars, httpVars, dispatchVars >>

\* interpreter shutdown: the process ends once no non-daemon thread is left;
\* daemon threads and their sockets go with it
ProcessExit ==
    /\ pc = "main_done"
    /\ nThreads = 0 \/ HealthThreadDaemon
    /\ pc' = "exited"
    /\ nThreads' = 0
    /\ sockets' = 0
    /\ conns' = << >>
    /\ UNCHANGED << HEALTH_CHECK_ENABLED, exc, raised, ctorResult, log, starts, pollStarts,
                    loopClosed, bindFailures, lastResponse >>
    /\ UNCHANGED << botVars, dispatchVars >>

\* a termination signal outside run_polling, where no handler is installed:
\* the process is killed
Kill ==
    /\ pc \notin {"polling", "exited"}
    /\ pc' = "exited"
    /\ nThreads' = 0
    /\ sockets' = 0
    /\ conns' = << >>
    /\ UNCHANGED << HEALTH_CHECK_ENABLED, exc, raised, ctorResult, log, starts, pollStarts,
                    loopClosed, bindFailures, lastResponse >>
    /\ UNCHANGED << botVars, dispatchVars >>

(***************************************************************************)
(* The environment: the platform queues updates, HTTP clients connect, and *)
(* the health thread serves one request at a time.                         *)
(***************************************************************************)
\* the platform queues an update for a process that may still poll for it
Arrive(u) ==
    /\ pc # "exited"
    /\ ~ loopClosed
    /\ Len(pending) < MaxPending
    /\ pending' = Append(pending, [update |-> u, backlog |-> pc # "polling"])
    /\ UNCHANGED << HEALTH_CHECK_ENABLED, pc, exc, raised, ctorResult, log, starts,
                    pollStarts, loopClosed, lastDispatch, failedBefore, droppedBacklog >>
    /\ UNCHANGED << botVars, healthVars, httpVars >>

Connect(req) ==
    /\ sockets > 0
    /\ Len(conns) < MaxConns
    /\ conns' = Append(conns, req)
    /\ UNCHANGED << HEALTH_CHECK_ENABLED, pc, exc, raised, ctorResult, log, starts,
                    pollStarts, loopClosed, lastResponse >>
    /\ UNCHANGED << botVars, healthVars, dispatchVars >>

\* serve_forever: accept the next connection and run the handler on it
ServeRequest ==
    /\ nThreads > 0
    /\ conns # << >>
    /\ lastResponse' = [request |-> Head(conns), response |-> handle_one_request(Head(conns)),
                        at |-> pc]
    /\ conns' = Tail(conns)
    /\ UNCHANGED << HEALTH_CHECK_ENABLED, pc, exc, raised, ctorResult, log, starts,
                    pollStarts, loopClosed >>
    /\ UNCHANGED << botVars, healthVars, dispatchVars >>

\* the steps of the main thread other than the dispatch of an update
MainStep ==
    \/ Construct
    \/ \E ok \in BOOLEAN : BuildApplication(ok)
    \/ \E ok \in BOOLEAN : AddHandler(ok)
    \/ \E ok \in BOOLEAN : AddErrorHandler(ok)
    \/ SetupBotExcept
    \/ \E ok \in BOOLEAN : CtorHealthServer(ok)
    \/ CallStart
    \/ StartCheck
    \/ \E ok \in BOOLEAN : StartHealthServer(ok)
    \/ \E ok \in BOOLEAN : RunPolling(ok)
    \/ PollError
    \/ StopSignal
    \/ StartExcept
    \/ MainEnd

\* the bot's lifecycle alone: no update arrives, no HTTP client connects
Next ==
    \/ MainStep
    \/ ProcessExit
    \/ Kill

\* the lifecycle with the platform delivering updates
NextDispatch ==
    \/ Next
    \/ \E u \in Updates : Arrive(u)
    \/ \E outcome \in {"ok", "raise"} : ProcessUpdate(outcome)

\* the lifecycle with HTTP clients of the health endpoint
NextHealth ==
    \/ Next
    \/ \E req \in Requests : Connect(req)
    \/ ServeRequest

Spec == Init /\ [][Next]_vars

SpecDispatch == Init /\ [][NextDispatch]_vars

SpecHealth == Init /\ [][NextHealth]_vars

\* the main thread keeps running and the interpreter shuts down when it can
FairSpec == Spec /\ WF_vars(MainStep) /\ WF_vars(ProcessExit)


(***************************************************************************)
(* Properties.                                                             *)
(***************************************************************************)
FullyConfigured ==
    /\ application = "Application"
    /\ Len(handlers) = 9
    /\ [i \in 1..6 |-> handlers[i].callback] =
         << "start_command", "help_command", "about_command", "dev_command",
            "stats_command", "deploy_command" >>
    /\ \A i \in 1..6 : handlers[i].kind = "command"
    /\ [i \in 1..3 |-> handlers[6 + i].callback] =
         << "handle_new_chat_members", "handle_message", "handle_edited_message" >>
    /\ \A i \in 7..9 : handlers[i].kind = "message"
    /\ error_handlers = << "error_handler" >>

SetupFailureLogged == \E i \in 1..Len(log) : log[i].msg = "Failed to setup bot"

\* C1: run_polling is entered only with the client built and the six command
\* handlers, the three message handlers and the error handler registered; a
\* failure of the build or of any registration leaves the constructor as an
\* exception and run_polling is never entered (its start counter stays 0).
C1_NoPollingWhenPartiallyConfigured ==
    /\ (pollStarts > 0 \/ pc \in {"run_polling", "polling"}) => FullyConfigured
    /\ ctorResult = "returned" => (FullyConfigured /\ ~ SetupFailureLogged)
    /\ ctorResult # "returned" => (pollStarts = 0 /\ starts = 0)
    /\ SetupFailureLogged =>
         (pollStarts = 0 /\ (pc \in {"ctor_raised", "main_done"} =>
                               (ctorResult = "raised" /\ raised \in {"InvalidToken", "TypeError"})))
    /\ pc = "ctor_raised" => (ctorResult = "raised" /\ raised # "none")

\* witness of C1: the seventh registration failed, the constructor raised
\* with six handlers registered, and polling was never started
C1_Witness ==
    /\ pc = "ctor_raised"
    /\ Len(handlers) = 6
    /\ error_handlers = << >>
    /\ raised = "TypeError"
    /\ pollStarts = 0

\* C2: whatever the binds do and however often start() is called, at most
\* one health server is bound and at most one health thread serves.
C2_AtMostOneHealthServer == sockets <= 1 /\ nThreads <= 1

\* witness of C2: the constructor's bind failed, a start() bound the server,
\* and start() was called again afterwards
C2_Witness ==
    /\ starts = 2
    /\ pc = "run_polling"
    /\ bindFailures = 1
    /\ sockets = 1
    /\ nThreads = 1

WarningCount(l) == Cardinality({ i \in 1..Len(l) : l[i].level = "warning" })

\* C3: a failed bind is caught inside setup_health_server: the step that
\* fails logs one warning, raises nothing (no exception in flight, nothing
\* handed to the caller), leaves health_server unset, and the constructor
\* returns normally, respectively start() goes on to run_polling.
C3_BindFailureIsolated ==
    [][ bindFailures' > bindFailures =>
          /\ WarningCount(log') = WarningCount(log) + 1
          /\ exc' = "none"
          /\ raised' = "none"
          /\ health_server' = "None"
          /\ pc = "ctor_health" => (pc' = "constructed" /\ ctorResult' = "returned")
          /\ pc = "start_health" => pc' = "run_polling" ]_vars

\* witness of C3: the bind failed in the constructor and again in start(),
\* and the bot is polling without a health server
C3_Witness ==
    /\ pc = "polling"
    /\ bindFailures = 2
    /\ health_server = "None"
    /\ WarningCount(log) = 2

\* C4: with the health check disabled no socket is ever bound (or tried)
\* and no health thread is started, through construction and start().
C4_DisabledOpensNoSocket ==
    ~ HEALTH_CHECK_ENABLED =>
        (sockets = 0 /\ nThreads = 0 /\ health_server = "None" /\ bindFailures = 0)

\* witness of C4: a bot with the health check disabled is polling
C4_Witness == ~ HEALTH_CHECK_ENABLED /\ pc = "polling" /\ starts = 1

HasHeader(resp, name, value) ==
    \E i \in 1..Len(resp.headers) :
        lower(resp.headers[i].name) = lower(name) /\ resp.headers[i].value = value

Dispatched == lastDispatch # NoDispatch

MessageShapeMatches(u) ==
    { i \in 1..Len(handlers) : handlers[i].kind = "message" /\ check_update(handlers[i], u) }

CommandHandlerMatches(u) ==
    { i \in 1..Len(handlers) : handlers[i].kind = "command" /\ check_update(handlers[i], u) }

\* C6: for every update the bot dispatches, at most one of the three
\* registered message-shape predicates matches, and none of them matches an
\* update that a registered command handler matches.
C6_PredicatesMutuallyExclusive ==
    Dispatched =>
        /\ Cardinality(MessageShapeMatches(lastDispatch.update)) <= 1
        /\ CommandHandlerMatches(lastDispatch.update) # {} =>
               MessageShapeMatches(lastDispatch.update) = {}

CallbackOfCommandText(t) ==
    CASE t = T_start -> "start_command"
      [] t = T_help -> "help_command"
      [] t = T_about -> "about_command"
      [] t = T_dev -> "dev_command"
      [] t = T_stats -> "stats_command"
      [] t = T_deploy -> "deploy_command"

NothingMatches(u) == \A i \in 1..Len(handlers) : ~ check_update(handlers[i], u)

\* C7 as stated: every update whose text is one of the six registered
\* commands has exactly that command's handler invoked, once, and no other;
\* an update that matches no command and no message-shape predicate has no
\* handler invoked.
C7_DispatchExactForEveryUpdate ==
    Dispatched =>
        /\ lastDispatch.update.text \in CommandTexts =>
               lastDispatch.invoked = << CallbackOfCommandText(lastDispatch.update.text) >>
        /\ NothingMatches(lastDispatch.update) => lastDispatch.invoked = << >>

\* C7 as amended: every message or edited-message update whose text is one
\* of the six registered commands has exactly that command's handler
\* invoked, once, and no other; an update that matches no command and no
\* message-shape predicate has no handler invoked.
C7_DispatchExactForMessages ==
    Dispatched =>
        /\ (/\ lastDispatch.update.text \in CommandTexts
            /\ lastDispatch.update.kind \in {"message", "edited_message"}) =>
               lastDispatch.invoked = << CallbackOfCommandText(lastDispatch.update.text) >>
        /\ NothingMatches(lastDispatch.update) => lastDispatch.invoked = << >>

\* witness of C7: an edited /start was dispatched to start_command alone
C7_Witness ==
    /\ lastDispatch.update = CmdUpd("edited_message", T_start, 6)
    /\ lastDispatch.invoked = << "start_command" >>

\* C8: when an invoked handler raises, the one registered error handler is
\* called exactly once with that error, nothing escapes the poll loop, and
\* the bot stays in the polling state, where later updates are dispatched.
C8_HandlerFailureDoesNotStopPolling ==
    /\ [][ ((lastDispatch' # lastDispatch \/ failedBefore' # failedBefore)
             /\ lastDispatch'.error # "none") =>
            /\ lastDispatch'.errorCalls =
                 << [callback |-> "error_handler", error |-> lastDispatch'.error] >>
            /\ Len(lastDispatch'.invoked) = 1
            /\ pc' = "polling"
            /\ exc' = "none"
            /\ ~ loopClosed' ]_vars
    /\ []((failedBefore /\ pc = "polling" /\ pending # << >>) =>
            ENABLED (\E outcome \in {"ok", "raise"} : ProcessUpdate(outcome)))

\* witness of C8: after an earlier handler failure a later update was
\* dispatched to its handler, and the bot is still polling
C8_Witness ==
    /\ failedBefore
    /\ lastDispatch.error = "none"
    /\ lastDispatch.invoked = << "handle_message" >>
    /\ pc = "polling"


(***************************************************************************)
(* The lifecycle state of the bot, read off the program state.             *)
(***************************************************************************)
Lifecycle ==
    IF pc \in {"setup_except", "ctor_raised", "start_except", "start_returned",
               "start_raised", "main_done", "exited"}
    THEN "Stopped"
    ELSE IF pc = "polling" THEN "Polling"
    ELSE IF loopClosed THEN "Stopped"
    ELSE IF pc \in {"boot", "build", "register", "add_error"} THEN "Uninitialized"
    ELSE IF health_server # "None" THEN "HealthServerRunning"
    ELSE "HandlersRegistered"

LifecycleRank ==
    CASE Lifecycle = "Uninitialized" -> 0
      [] Lifecycle = "HandlersRegistered" -> 1
      [] Lifecycle = "HealthServerRunning" -> 2
      [] Lifecycle = "Polling" -> 3
      [] Lifecycle = "Stopped" -> 4

\* a shutdown signal or an unrecoverable setup failure that ends the run
StopsNow ==
    /\ Kill \/ StopSignal \/ \E ok \in BOOLEAN : (BuildApplication(ok) \/ AddHandler(ok))
    /\ Lifecycle' = "Stopped"

\* C9: the lifecycle state never moves back (Uninitialized, then
\* HandlersRegistered, then HealthServerRunning when a server is bound, then
\* Polling, then Stopped); no step leaves Stopped; and in every state other
\* than Stopped a shutdown signal or setup failure can lead to Stopped.
C9_LifecycleMovesForward ==
    /\ [][LifecycleRank' >= LifecycleRank]_vars
    /\ [][Lifecycle = "Stopped" => Lifecycle' = "Stopped"]_vars
    /\ [](Lifecycle # "Stopped" => ENABLED StopsNow)

\* witness of C9: start() is called again on a bot whose polling session
\* has ended; the bot has a health server and stays Stopped
C9_Witness ==
    /\ starts = 2
    /\ pc = "run_polling"
    /\ loopClosed
    /\ health_server # "None"
    /\ Lifecycle = "Stopped"

\* C10: once start() has returned after a stop signal, or has raised, the
\* process eventually exits, also while the health thread is still serving.
C10_HealthThreadDoesNotKeepProcessAlive ==
    (pc \in {"start_returned", "start_raised"}) ~> (pc = "exited")

\* witness of C10: the main thread is done after a polling session while
\* the health thread is still alive; nothing has stopped or joined it
C10_Witness ==
    /\ pc = "main_done"
    /\ nThreads = 1
    /\ sockets = 1
    /\ pollStarts >= 1


\* C11: what was pending at the platform before the polling session started
\* is dropped when run_polling starts the session, and no update queued
\* before the session is ever dispatched; only later arrivals are.
C11_NoBacklogReplay ==
    /\ [][(pc = "run_polling" /\ pc' = "polling") =>
            (pending' = << >> /\ (pending # << >> => droppedBacklog'))]_vars
    /\ [](~ lastDispatch.backlog)
    /\ [](pc = "polling" => \A i \in 1..Len(pending) : ~ pending[i].backlog)

\* witness of C11: an update was queued before the session, the session
\* started, and the update dispatched is one that arrived afterwards
C11_Witness ==
    /\ pc = "polling"
    /\ droppedBacklog
    /\ Dispatched
    /\ ~ lastDispatch.backlog
    /\ lastDispatch.invoked = << "help_command" >>


RegistrationOrder ==
    << "start_command", "help_command", "about_command", "dev_command", "stats_command",
       "deploy_command", "handle_new_chat_members", "handle_message",
       "handle_edited_message" >>

\* C12: the handler invoked for an update is the earliest one, in the
\* add_handler order of setup_bot (six commands, new-chat-members,
\* text-and-not-command, edited-message), whose predicate matches; no handler
\* registered after it is invoked, even when its predicate matches too.
C12_FirstMatchWins ==
    Dispatched =>
        /\ [i \in 1..Len(handlers) |-> handlers[i].callback] = RegistrationOrder
        /\ Len(lastDispatch.invoked) <= 1
        /\ \A i \in 1..Len(handlers) :
               (/\ check_update(handlers[i], lastDispatch.update)
                /\ \A j \in 1..(i - 1) : ~ check_update(handlers[j], lastDispatch.update))
               => lastDispatch.invoked = << RegistrationOrder[i] >>

\* witness of C12: an edited plain text matches text-and-not-command and
\* edited-message; only handle_message, registered first, was invoked
C12_Witness ==
    /\ lastDispatch.update = Upd("edited_message", T_hi, NoEntity, FALSE)
    /\ Cardinality(MessageShapeMatches(lastDispatch.update)) = 2
    /\ lastDispatch.invoked = << "handle_message" >>


\* attempts to bind the health server made so far by the live process
BindAttempts == sockets + bindFailures

\* C13: with the health check enabled, a start() that follows a successful
\* bind in the constructor (or finds a server running) makes no bind attempt;
\* a start() that follows a failed bind in the constructor makes exactly one,
\* in the step before run_polling is entered, and no other step of start()
\* makes any.
C13_StartIsIdempotentForHealthServer ==
    /\ [][ (pc = "start_health" /\ pc' \notin {"start_health", "exited"}
              /\ HEALTH_CHECK_ENABLED) =>
             /\ (starts = 1 /\ bindFailures = 0) =>
                    (sockets = 1 /\ BindAttempts' = BindAttempts)
             /\ (starts = 1 /\ bindFailures = 1) =>
                    (/\ sockets = 0
                     /\ BindAttempts' = BindAttempts + 1
                     /\ pollStarts' = pollStarts
                     /\ pc' = "run_polling")
             /\ sockets > 0 => (BindAttempts' = BindAttempts /\ sockets' = sockets) ]_vars
    /\ [][ (pc \in {"start_check", "run_polling", "polling", "start_except"}
              /\ pc' # "exited") => BindAttempts' = BindAttempts ]_vars

\* witness of C13: the constructor's bind failed, the first start() bound
\* the server with its one attempt, and run_polling is about to be entered
C13_Witness ==
    /\ starts = 1
    /\ pc = "run_polling"
    /\ pollStarts = 0
    /\ bindFailures = 1
    /\ sockets = 1


StartErrorCount(l) ==
    Cardinality({ i \in 1..Len(l) : l[i] = LogRec("error", "Error starting bot") })

\* C14: an exception raised by the pre-poll steps of start() or by
\* run_polling always reaches the except block of start(), which logs it
\* once as an error and re-raises the same exception to the caller; no other
\* step writes that error record, and start() returns normally only when no
\* exception occurred.
C14_StartLogsOnceAndReraises ==
    /\ [][ (pc \in {"start_check", "start_health", "run_polling", "polling"} /\ exc' # exc) =>
             (exc' # "none" /\ pc' = "start_except") ]_vars
    /\ [][ (pc = "start_except" /\ pc' \notin {"start_except", "exited"}) =>
             /\ exc # "none"
             /\ log' = Append(log, LogRec("error", "Error starting bot"))
             /\ raised' = exc
             /\ pc' = "start_raised" ]_vars
    /\ [][ StartErrorCount(log') # StartErrorCount(log) =>
             (pc = "start_except" /\ StartErrorCount(log') = StartErrorCount(log) + 1) ]_vars
    /\ [](pc = "start_returned" => (raised = "none" /\ exc = "none"))
    /\ [](pc = "start_raised" => (raised \in {"RuntimeError", "NetworkError"} /\ exc = "none"))

\* witness of C14: run_polling raised in the first start(); the error was
\* logged once and the caller holds the same exception
C14_Witness ==
    /\ pc = "start_raised"
    /\ starts = 1
    /\ pollStarts = 1
    /\ raised = "NetworkError"
    /\ StartErrorCount(log) = 1


\* C15: a failed setup opens no socket.  Whenever the build of the client or
\* a registration has failed (the failure is pending in setup_bot, has been
\* logged, or has left the constructor), no health-server socket was bound,
\* no bind was attempted, no health thread runs and health_server is unset,
\* whatever HEALTH_CHECK_ENABLED says.
C15_FailedSetupOpensNoSocket ==
    (pc = "setup_except" \/ SetupFailureLogged \/ ctorResult = "raised") =>
        /\ sockets = 0
        /\ nThreads = 0
        /\ bindFailures = 0
        /\ health_server = "None"
        /\ \A i \in 1..Len(log) : log[i].msg # "Health check server started"

\* witness of C15: health-check is enabled, the client was built, a
\* registration failed and the constructor raised with no socket bound
C15_Witness ==
    /\ HEALTH_CHECK_ENABLED
    /\ pc = "ctor_raised"
    /\ application = "Application"
    /\ Len(handlers) < Len(Registrations)
    /\ SetupFailureLogged
    /\ sockets = 0
    /\ nThreads = 0


HealthRequest == [method |-> "GET", path |-> HealthPath]

\* C16: the health endpoint does not reflect the polling state.  In every
\* state in which the health server is bound its thread serves: a GET /health
\* can be sent and a waiting request is answered, wherever the main thread
\* stands; and every GET /health answered was answered 200 with the healthy
\* body, before the first start(), while polling, and after run_polling has
\* raised or returned.
C16_HealthIndependentOfPolling ==
    /\ sockets > 0 =>
           /\ nThreads > 0
           /\ health_server = "HTTPServer"
           /\ Len(conns) < MaxConns => ENABLED Connect(HealthRequest)
           /\ conns # << >> => ENABLED ServeRequest
    /\ lastResponse.request = HealthRequest =>
           /\ lastResponse.at \in {"constructed", "start_check", "start_health", "run_polling",
                                   "polling", "start_except", "start_returned",
                                   "start_raised", "main_done"}
           /\ lastResponse.response = Response(200, << ContentTypeHeader >>, HealthBody)

\* witness of C16: GET /health was answered 200 after run_polling had raised
\* and start() had re-raised, with the process still alive
C16_Witness ==
    /\ pc = "start_raised"
    /\ pollStarts = 1
    /\ sockets > 0
    /\ lastResponse.at = "start_raised"
    /\ lastResponse.request = HealthRequest
    /\ lastResponse.response.status = 200
    /\ lastResponse.response.body = HealthBody


\* C17: the guard on self.application is dead for constructed bots.  Once
\* the constructor has returned normally self.application is set and stays
\* set, so the first check of start() never raises its RuntimeError: every
\* start() passes the guard and goes on to the health-server step.
C17_ApplicationGuardIsDead ==
    /\ [](ctorResult = "returned" => application = "Application")
    /\ [](pc = "start_check" => (ctorResult = "returned" /\ exc = "none"))
    /\ [][ (pc = "start_check" /\ pc' \notin {"start_check", "exited"}) =>
             (pc' = "start_health" /\ exc' = "none" /\ application' = application) ]_vars
    /\ [][ application = "Application" => application' = "Application" ]_vars

\* witness of C17: a second start() on the same bot, after the first one
\* raised, has passed the guard
C17_Witness ==
    /\ pc = "start_health"
    /\ starts = 2
    /\ ctorResult = "returned"
    /\ application = "Application"
    /\ exc = "none"
    /\ StartErrorCount(log) = 1

====
